---- MODULE Spec2Model ----
(***************************************************************************)
(* A model of pydantic/_internal/_namespace_utils.py: the lazily merged    *)
(* local namespace (LazyLocalNamespace), the module namespace lookup       *)
(* (get_module_ns_of) and the namespace resolver (NsResolver) with its     *)
(* stack of types, its cached types_namespace property and its push        *)
(* context manager.                                                        *)
(*                                                                         *)
(* A Python dict is a sequence of <<key, value>> pairs with distinct keys, *)
(* in insertion order.  An optional value (None or a value) is the empty   *)
(* sequence or a one-element sequence.  Bound values are strings: "1",     *)
(* "2", ... for plain objects, and a site's identifier for the site        *)
(* object itself.                                                          *)
(***************************************************************************)
EXTENDS Naturals, Sequences, FiniteSets

VARIABLES
    base_ns_tuple,   \* NsResolver._base_ns_tuple
    fallback_ns,     \* NsResolver._fallback_ns (None or a mapping)
    override_ns,     \* NsResolver._override_ns (None or a mapping)
    types_stack,     \* NsResolver._types_stack
    cached,          \* NsResolver.__dict__.get('types_namespace'): the cached_property cell
    open,            \* the caller's push scopes entered and not yet released, innermost last
    exc,             \* an exception raised in the caller's body is propagating
    lastOp,          \* the operation performed last
    lastRead,        \* what the last read of types_namespace returned
    rt,              \* observer of read / push / release / read sequences
    lz_namespaces,   \* LazyLocalNamespace._namespaces of the instance under study
    lz_data,         \* that instance's cached `data` (None until the first access)
    lz_calls,        \* how many times items() was called on each constituent
    lz_folds,        \* how many times the body of `data` ran
    lz_last,         \* the last call on the instance and what it returned
    lz_snap,         \* the constituents as they were at the first call (None before it)
    lz_muts,         \* how many times the caller changed a constituent mapping
    nf_last,         \* the last call of ns_from: its arguments and its result
    nf_look,         \* the last name looked up in that result, with what was found
    th,              \* per thread: where it is in a read of types_namespace, and its locals
    cache_raced      \* the cached value was stored by a read that a push or pop overtook

resolverVars == <<base_ns_tuple, fallback_ns, override_ns, types_stack, cached,
                  open, exc, lastOp, lastRead, rt>>

lazyVars == <<lz_namespaces, lz_data, lz_calls, lz_folds, lz_last, lz_snap, lz_muts>>

buildVars == <<nf_last, nf_look>>

threadVars == <<th, cache_raced>>

vars == <<resolverVars, lazyVars, buildVars, threadVars>>

(***************************************************************************)
(* Bounds of the model.                                                    *)
(***************************************************************************)
MaxDepth == 3
MaxNamespaces == 3
MaxMutations == 2

None == <<>>
Some(v) == <<v>>

(***************************************************************************)
(* dict operations, as Python performs them.                               *)
(***************************************************************************)
DictHas(d, k) == \E i \in 1..Len(d) : d[i][1] = k

\* d[k]; None stands for KeyError
DictGet(d, k) ==
    IF DictHas(d, k) THEN Some(d[CHOOSE i \in 1..Len(d) : d[i][1] = k][2]) ELSE None

DictKeys(d) == {d[i][1] : i \in 1..Len(d)}

\* d.setdefault(k, v): an existing key keeps its first value
DictSetDefault(d, k, v) == IF DictHas(d, k) THEN d ELSE Append(d, <<k, v>>)

\* d[k] = v: an existing key keeps its position, a new key is appended
DictSet(d, k, v) ==
    IF DictHas(d, k)
    THEN [i \in 1..Len(d) |-> IF d[i][1] = k THEN <<k, v>> ELSE d[i]]
    ELSE Append(d, <<k, v>>)

\* for k, v in items: d[k] = v
RECURSIVE DictUpdate(_, _)
DictUpdate(d, items) ==
    IF items = <<>> THEN d
    ELSE DictUpdate(DictSet(d, items[1][1], items[1][2]), Tail(items))

\* {k: v for ns in namespaces for k, v in ns.items()}
RECURSIVE MergeInto(_, _)
MergeInto(d, namespaces) ==
    IF namespaces = <<>> THEN d
    ELSE MergeInto(DictUpdate(d, namespaces[1]), Tail(namespaces))

\* LazyLocalNamespace.data
data(namespaces) == MergeInto(<<>>, namespaces)

(***************************************************************************)
(* The declaration sites (classes) the caller may push, and sys.modules.   *)
(***************************************************************************)
SiteIds == {"sA", "sB", "sC", "sD"}

\* typ.__name__
SiteName(s) ==
    CASE s = "sA" -> "A"
      [] s = "sB" -> "B"
      [] s = "sC" -> "C"
      [] s = "fF" -> "F"
      [] s = "fG" -> "G"
      [] s = "fH" -> "H"
      [] s = "aN" -> "N"
      [] s = "aP" -> "P"
      [] OTHER    -> "D"

\* getattr(typ, '__module__', None)
SiteModule(s) ==
    CASE s = "sA" -> Some("M1")
      [] s = "sB" -> Some("M2")
      [] s = "sC" -> Some("M9")
      [] s = "fF" -> Some("M1")
      [] s = "fG" -> Some("M2")
      [] s = "fH" -> Some("M9")
      [] s = "aN" -> Some("M1")
      [] OTHER    -> None

\* vars(typ)
SiteVars(s) ==
    CASE s = "sA" -> << <<"x", "1">> >>
      [] s = "sB" -> << <<"y", "2">> >>
      [] s = "sC" -> << >>
      [] OTHER    -> << <<"D", "3">>, <<"x", "4">> >>

\* sys.modules, each module by its __dict__; "M9" is not imported
sys_modules ==
    << <<"M1", << <<"g", "10">>, <<"x", "11">> >> >>,
       <<"M2", << <<"g", "20">>, <<"f", "21">> >> >> >>

\* a lookup that falls back to the first imported module instead of {}
get_module_ns_of_first(obj) ==
    LET module_name == SiteModule(obj) IN
    IF module_name # None /\ DictHas(sys_modules, module_name[1])
    THEN DictGet(sys_modules, module_name[1])[1]
    ELSE sys_modules[1][2]

get_module_ns_of(obj) ==
    LET module_name == SiteModule(obj) IN
    IF module_name # None
    THEN IF DictHas(sys_modules, module_name[1])
         THEN DictGet(sys_modules, module_name[1])[1]
         ELSE << >>
    ELSE << >>

\* the objects ns_from is called with that are not classes: functions, and
\* annotation targets that are neither classes nor functions
FunctionObjs == {"fF", "fG", "fH"}
AnnotationObjs == {"aN", "aP"}

\* isinstance(obj, type)
IsType(obj) == obj \in SiteIds

\* getattr(obj, '__type_params__', ()): a tuple of type variables
TypeParamsOf(obj) ==
    CASE obj = "fF" -> <<"tvT">>
      [] obj = "fH" -> <<"tvT", "tvU">>
      [] OTHER      -> << >>

\* t.__name__ of a type variable
TypeVarName(t) ==
    CASE t = "tvT"  -> "T"
      [] t = "tvT2" -> "T"
      [] t = "tvU"  -> "U"
      [] OTHER      -> "P"

\* the elements of a tuple object bound to '__type_params__' in a namespace
TupleItems(v) ==
    CASE v = "tupP"  -> <<"tvP">>
      [] v = "tupT2" -> <<"tvT2", "tvP">>
      [] OTHER       -> << >>

(***************************************************************************)
(* A namespace is a plain dict or a LazyLocalNamespace over a sequence of  *)
(* namespaces.                                                             *)
(***************************************************************************)
PlainNs(d) == [kind |-> "dict", d |-> d]
LazyLocalNamespace(namespaces) == [kind |-> "lazy", namespaces |-> namespaces]

\* the mapping a namespace presents to __getitem__, __contains__, __len__, __iter__
NsData(ns) == IF ns.kind = "lazy" THEN data(ns.namespaces) ELSE ns.d

NamespacesTuple(g, l) == [globals |-> g, locals |-> l]

(***************************************************************************)
(* ns_from.                                                                *)
(***************************************************************************)
\* the parent namespace ns_from may be called with
ParentArgs ==
    { None,
      Some(<< >>),
      Some(<< <<"x", "80">>, <<"A", "81">>, <<"F", "82">>, <<"T", "83">> >>),
      Some(<< <<"__type_params__", "tupP">>, <<"y", "84">> >>),
      Some(<< <<"__type_params__", "tupT2">> >>) }

\* parent_namespace.get('__type_params__', ())
ParentTypeParams(parent) ==
    IF DictHas(parent, "__type_params__")
    THEN TupleItems(DictGet(parent, "__type_params__")[1])
    ELSE << >>

\* {t.__name__: t for t in type_params}
RECURSIVE TypeParamsDict(_, _)
TypeParamsDict(d, type_params) ==
    IF type_params = << >> THEN d
    ELSE TypeParamsDict(DictSet(d, TypeVarName(type_params[1]), type_params[1]),
                        Tail(type_params))

\* locals_list after "if parent_namespace is not None: locals_list.append(...)"
ParentList(parent) == IF parent # None THEN <<parent[1]>> ELSE << >>

\* the parent namespace appended after the class's own entries
ClassLocalsParentLast(obj, parent) ==
    << SiteVars(obj), << <<SiteName(obj), obj>> >> >> \o ParentList(parent)

\* isinstance(obj, type): locals_list.extend([vars(obj), {obj.__name__: obj}])
ClassLocals(obj, parent) ==
    ParentList(parent) \o << SiteVars(obj), << <<SiteName(obj), obj>> >> >>

\* the type parameters of the parent namespace, then those of obj
AllTypeParams(obj, parent) ==
    (IF parent # None THEN ParentTypeParams(parent[1]) ELSE << >>) \o TypeParamsOf(obj)

\* the else branch with a self-reference entry added, as for a class
OtherLocalsWithSelf(obj, parent) ==
    ParentList(parent) \o << TypeParamsDict(<< >>, AllTypeParams(obj, parent)),
                             << <<SiteName(obj), obj>> >> >>

\* else: locals_list.append({t.__name__: t for t in type_params})
OtherLocals(obj, parent) ==
    ParentList(parent) \o << TypeParamsDict(<< >>, AllTypeParams(obj, parent)) >>

\* ns_from with a branch for objects that are neither classes nor functions,
\* returning two empty namespaces
ns_from_bare_empty(obj, parent_namespace) ==
    IF obj \in AnnotationObjs
    THEN NamespacesTuple(<< >>, LazyLocalNamespace(<< >>))
    ELSE NamespacesTuple(
             get_module_ns_of(obj),
             LazyLocalNamespace(IF IsType(obj) THEN ClassLocals(obj, parent_namespace)
                                ELSE OtherLocals(obj, parent_namespace)))

ns_from(obj, parent_namespace) ==
    NamespacesTuple(
        get_module_ns_of(obj),
        LazyLocalNamespace(IF IsType(obj) THEN ClassLocals(obj, parent_namespace)
                           ELSE OtherLocals(obj, parent_namespace)))

(***************************************************************************)
(* The arguments NsResolver may be constructed with.                       *)
(***************************************************************************)
BaseArgs ==
    { None,
      Some(NamespacesTuple(<< <<"g", "50">> >>, PlainNs(<< >>))),
      Some(NamespacesTuple(<< <<"g", "50">>, <<"h", "51">> >>, PlainNs(<< <<"x", "52">> >>))) }

FallbackArgs ==
    { None,
      Some(<< >>),
      Some(<< <<"f", "60">>, <<"g", "61">>, <<"k", "62">> >>) }

OverrideArgs ==
    { None,
      Some(<< <<"x", "70">>, <<"A", "71">>, <<"B", "72">> >>),
      Some(<< <<"y", "73">>, <<"D", "74">>, <<"z", "75">> >>) }

\* namespaces_tuple or NamespacesTuple({}, {})
BaseOrDefault(arg) ==
    IF arg # None THEN arg[1] ELSE NamespacesTuple(<< >>, PlainNs(<< >>))

(***************************************************************************)
(* NsResolver.types_namespace: the body of the cached property.            *)
(***************************************************************************)
\* the two unpackings swapped: {**globalns, **self._fallback_ns}
MergeFallbackLast(fb, globalns) == DictUpdate(DictUpdate(<< >>, globalns), fb)

\* globalns = {**self._fallback_ns, **globalns}
MergeFallback(fb, globalns) == DictUpdate(DictUpdate(<< >>, fb), globalns)

GlobalnsOf(typ, fb) ==
    IF fb # None THEN MergeFallback(fb[1], get_module_ns_of(typ))
    ELSE get_module_ns_of(typ)

\* the two entries swapped: [{typ.__name__: typ}, vars(typ)]
TypLocalsSelfFirst(typ) == << << <<SiteName(typ), typ>> >>, SiteVars(typ) >>

\* [vars(typ), {typ.__name__: typ}]
TypLocals(typ) == << SiteVars(typ), << <<SiteName(typ), typ>> >> >>

\* the override put first in the list instead of appended
LocalsListOverrideFirst(typ, ov) ==
    IF ov # None THEN <<ov[1]>> \o TypLocals(typ) ELSE TypLocals(typ)

\* if self._override_ns is not None: locals_list.append(self._override_ns)
LocalsList(typ, ov) ==
    IF ov # None THEN Append(TypLocals(typ), ov[1]) ELSE TypLocals(typ)

\* the empty-stack branch merging the fallback below the base globals
EmptyStackNsMerged(base, fb, ov) ==
    IF fb # None
    THEN NamespacesTuple(MergeFallback(fb[1], base.globals), base.locals)
    ELSE base

\* the empty-stack branch putting the override above the base locals
EmptyStackNsOverridden(base, fb, ov) ==
    IF ov # None
    THEN NamespacesTuple(base.globals, LazyLocalNamespace(<<NsData(base.locals), ov[1]>>))
    ELSE base

\* if not self._types_stack: return self._base_ns_tuple
EmptyStackNs(base, fb, ov) == base

\* the locals built from every entry of the stack, not from the top alone
RECURSIVE AllLocals(_)
AllLocals(stack) ==
    IF stack = << >> THEN << >> ELSE TypLocals(stack[1]) \o AllLocals(Tail(stack))

ComputeFromWholeStack(base, fb, ov, stack) ==
    IF stack = << >>
    THEN EmptyStackNs(base, fb, ov)
    ELSE NamespacesTuple(
             GlobalnsOf(stack[Len(stack)], fb),
             LazyLocalNamespace(IF ov # None THEN Append(AllLocals(stack), ov[1])
                                ELSE AllLocals(stack)))

ComputeTypesNamespace(base, fb, ov, stack) ==
    IF stack = << >>
    THEN EmptyStackNs(base, fb, ov)
    ELSE LET typ == stack[Len(stack)] IN
         NamespacesTuple(GlobalnsOf(typ, fb), LazyLocalNamespace(LocalsList(typ, ov)))

\* cached_property: the stored value if there is one, else the computed one
CachedOrComputed(cell, base, fb, ov, stack) ==
    IF cell # None THEN cell[1] ELSE ComputeTypesNamespace(base, fb, ov, stack)

(***************************************************************************)
(* NsResolver.push: the context manager's two halves.                      *)
(***************************************************************************)
\* entering a scope with the append left out
StackAppendNothing(stack, typ) == stack

\* self._types_stack.append(typ)
StackAppend(stack, typ) == Append(stack, typ)

\* a pop(0) in place of pop(): the oldest entry is removed
StackPopFront(stack) == Tail(stack)

\* self._types_stack.pop()
StackPop(stack) == SubSeq(stack, 1, Len(stack) - 1)

\* push without the invalidation: the cell is left as it is
KeepOnPush(cell) == cell

\* self.__dict__.pop('types_namespace', None) after the append
InvalidateOnPush(cell) == None

\* self.__dict__.pop('types_namespace', None) after the pop
InvalidateOnPop(cell) == None

\* the pop written after the yield with no try / finally: a failing body skips it
ReleaseStackNoFinally(stack, failed) == IF failed THEN stack ELSE StackPop(stack)

\* try: yield / finally: the release runs the pop whether or not the body failed
ReleaseStack(stack, failed) == StackPop(stack)

ReleaseCache(cell, failed) == InvalidateOnPop(cell)

(***************************************************************************)
(* The observer of round trips: phase 1 after a read, 2 after a push that  *)
(* follows it, 3 after the release that follows that, 4 after the read     *)
(* that follows the release; pre and stk are the first read's value and    *)
(* the stack it was read from.                                             *)
(***************************************************************************)
RtIdle == [phase |-> 0, pre |-> None, stk |-> << >>]

ResolverInit ==
    /\ \E b \in BaseArgs : base_ns_tuple = BaseOrDefault(b)
    /\ fallback_ns \in FallbackArgs
    /\ override_ns \in OverrideArgs
    /\ types_stack = << >>
    /\ cached = None
    /\ open = << >>
    /\ exc = FALSE
    /\ lastOp = "init"
    /\ lastRead = None
    /\ rt = RtIdle

\* LazyLocalNamespace(): no constituent, nothing read
LazyIdle ==
    /\ lz_namespaces = << >>
    /\ lz_data = None
    /\ lz_calls = << >>
    /\ lz_folds = 0
    /\ lz_last = [op |-> "new"]
    /\ lz_snap = None
    /\ lz_muts = 0

\* ns_from not called yet
BuildIdle ==
    /\ nf_last = [op |-> "new"]
    /\ nf_look = None

Threads == {"t1", "t2"}

ThreadIdle == [pc |-> "idle", val |-> None, raced |-> FALSE]

\* no thread is inside a read
ThreadsIdle ==
    /\ th = [t \in Threads |-> ThreadIdle]
    /\ cache_raced = FALSE

Init == ResolverInit /\ LazyIdle /\ BuildIdle /\ ThreadsIdle

\* reading ns_resolver.types_namespace
Read ==
    /\ ~exc
    /\ LET v == CachedOrComputed(cached, base_ns_tuple, fallback_ns, override_ns, types_stack) IN
        /\ cached' = Some(v)
        /\ lastRead' = Some(v)
        /\ rt' = IF rt.phase = 3
                 THEN [rt EXCEPT !.phase = 4]
                 ELSE [phase |-> 1, pre |-> Some(v), stk |-> types_stack]
    /\ lastOp' = "read"
    /\ UNCHANGED <<lazyVars, buildVars, threadVars, base_ns_tuple, fallback_ns, override_ns, types_stack, open, exc>>

\* with ns_resolver.push(typ): entering the scope
Push(typ) ==
    /\ ~exc
    /\ Len(open) < MaxDepth
    /\ types_stack' = StackAppend(types_stack, typ)
    /\ cached' = InvalidateOnPush(cached)
    /\ open' = Append(open, typ)
    /\ rt' = IF rt.phase \in {1, 4}
             THEN [phase |-> 2, pre |-> lastRead, stk |-> types_stack]
             ELSE RtIdle
    /\ lastOp' = "push"
    /\ UNCHANGED <<lazyVars, buildVars, threadVars, base_ns_tuple, fallback_ns, override_ns, exc, lastRead>>

\* leaving the innermost scope, its body having completed
Exit ==
    /\ ~exc
    /\ open # << >>
    /\ types_stack' = ReleaseStack(types_stack, FALSE)
    /\ cached' = ReleaseCache(cached, FALSE)
    /\ open' = SubSeq(open, 1, Len(open) - 1)
    /\ rt' = IF rt.phase = 2 THEN [rt EXCEPT !.phase = 3] ELSE RtIdle
    /\ lastOp' = "exit"
    /\ UNCHANGED <<lazyVars, buildVars, threadVars, base_ns_tuple, fallback_ns, override_ns, exc, lastRead>>

\* the body of the innermost scope fails partway
Raise ==
    /\ ~exc
    /\ open # << >>
    /\ exc' = TRUE
    /\ lastOp' = "raise"
    /\ UNCHANGED <<lazyVars, buildVars, threadVars, base_ns_tuple, fallback_ns, override_ns, types_stack, cached,
                   open, lastRead, rt>>

\* the exception leaves the innermost scope: the generator's finally clause runs
Unwind ==
    /\ exc
    /\ open # << >>
    /\ types_stack' = ReleaseStack(types_stack, TRUE)
    /\ cached' = ReleaseCache(cached, TRUE)
    /\ open' = SubSeq(open, 1, Len(open) - 1)
    /\ rt' = IF rt.phase = 2 THEN [rt EXCEPT !.phase = 3] ELSE RtIdle
    /\ lastOp' = "unwind"
    /\ UNCHANGED <<lazyVars, buildVars, threadVars, base_ns_tuple, fallback_ns, override_ns, exc, lastRead>>

\* the caller handles the exception outside the scopes it has left
Catch ==
    /\ exc
    /\ lastOp = "unwind"
    /\ exc' = FALSE
    /\ UNCHANGED <<lazyVars, buildVars, threadVars, base_ns_tuple, fallback_ns, override_ns, types_stack, cached,
                   open, lastOp, lastRead, rt>>

Next ==
    \/ Read
    \/ \E typ \in SiteIds : Push(typ)
    \/ Exit
    \/ Raise
    \/ Unwind
    \/ Catch

Spec == Init /\ [][Next]_vars

(***************************************************************************)
(* One LazyLocalNamespace instance and the calls on it.                    *)
(***************************************************************************)
\* the mappings an instance may be constructed from
LzDicts ==
    { << >>,
      << <<"a", "1">> >>,
      << <<"a", "3">> >>,
      << <<"b", "2">> >>,
      << <<"a", "1">>, <<"b", "2">> >>,
      << <<"b", "4">>, <<"a", "3">>, <<"c", "5">> >> }

LzKeys == {"a", "b", "c", "d"}

RECURSIVE SeqsUpTo(_, _)
SeqsUpTo(S, n) ==
    IF n = 0 THEN { << >> }
    ELSE LET shorter == SeqsUpTo(S, n - 1) IN
         shorter \cup { Append(q, e) : q \in shorter, e \in S }

\* a plain property in place of cached_property: nothing is stored
StoreNothing(d) == None

\* cached_property stores what the body returned in the instance's __dict__
StoreData(d) == Some(d)

\* LazyLocalNamespace(*namespaces): __init__ keeps the tuple and reads nothing
LazyInit ==
    /\ lz_namespaces \in SeqsUpTo(LzDicts, MaxNamespaces)
    /\ lz_data = None
    /\ lz_calls = [i \in 1..Len(lz_namespaces) |-> 0]
    /\ lz_folds = 0
    /\ lz_last = [op |-> "new"]
    /\ lz_snap = None
    /\ lz_muts = 0

\* self.data: the stored dict, else one pass over every constituent's items()
DataValue == IF lz_data # None THEN lz_data[1] ELSE data(lz_namespaces)

AccessData ==
    /\ lz_data' = IF lz_data # None THEN lz_data ELSE StoreData(data(lz_namespaces))
    /\ lz_calls' = IF lz_data # None THEN lz_calls
                   ELSE [i \in 1..Len(lz_namespaces) |-> lz_calls[i] + 1]
    /\ lz_folds' = IF lz_data # None THEN lz_folds ELSE lz_folds + 1
    /\ lz_snap' = IF lz_snap # None THEN lz_snap ELSE Some(lz_namespaces)
    /\ UNCHANGED <<lz_namespaces, lz_muts, resolverVars, buildVars, threadVars>>

\* ns[key]: self.data[key]
GetItem(key) ==
    /\ AccessData
    /\ lz_last' = [op |-> "getitem", key |-> key, first |-> lz_data = None, val |-> DictGet(DataValue, key)]

\* key in ns: key in self.data
Contains(key) ==
    /\ AccessData
    /\ lz_last' = [op |-> "contains", key |-> key, first |-> lz_data = None, val |-> DictHas(DataValue, key)]

\* len(ns): len(self.data)
LenCall ==
    /\ AccessData
    /\ lz_last' = [op |-> "len", first |-> lz_data = None, val |-> Len(DataValue)]

\* iter(ns): iter(self.data), the keys in insertion order
IterCall ==
    /\ AccessData
    /\ lz_last' = [op |-> "iter", first |-> lz_data = None, val |-> [i \in 1..Len(DataValue) |-> DataValue[i][1]]]

\* a resolver that is constructed and left alone
ResolverIdle ==
    /\ base_ns_tuple = BaseOrDefault(None)
    /\ fallback_ns = None
    /\ override_ns = None
    /\ types_stack = << >>
    /\ cached = None
    /\ open = << >>
    /\ exc = FALSE
    /\ lastOp = "init"
    /\ lastRead = None
    /\ rt = RtIdle

InitLazy == ResolverIdle /\ LazyInit /\ BuildIdle /\ ThreadsIdle

NextLazy ==
    \/ \E key \in LzKeys : GetItem(key)
    \/ \E key \in LzKeys : Contains(key)
    \/ LenCall
    \/ IterCall

SpecLazy == InitLazy /\ [][NextLazy]_vars

(***************************************************************************)
(* A LazyLocalNamespace whose constituents the caller changes: the         *)
(* instance holds references to the caller's mappings, not copies.         *)
(***************************************************************************)
\* the constituents of the instance whose mappings are changed
LzMutInits ==
    { << << <<"a", "1">>, <<"b", "2">> >> >>,
      << << <<"a", "1">> >>, << <<"a", "3">> >> >>,
      << << <<"b", "2">> >>, << >> >>,
      << << <<"b", "4">>, <<"a", "3">>, <<"c", "5">> >>, << <<"a", "1">> >> >> }

\* del d[k]
DictDel(d, k) == SelectSeq(d, LAMBDA e : e[1] # k)

InitLazyMut ==
    /\ ResolverIdle /\ BuildIdle /\ ThreadsIdle
    /\ lz_namespaces \in LzMutInits
    /\ lz_data = None
    /\ lz_calls = [i \in 1..Len(lz_namespaces) |-> 0]
    /\ lz_folds = 0
    /\ lz_last = [op |-> "new"]
    /\ lz_snap = None
    /\ lz_muts = 0

\* the caller binds key in the i-th constituent mapping
SetKey(i, key, v) ==
    /\ lz_muts < MaxMutations
    /\ i \in 1..Len(lz_namespaces)
    /\ lz_namespaces' = [lz_namespaces EXCEPT ![i] = DictSet(@, key, v)]
    /\ lz_muts' = lz_muts + 1
    /\ UNCHANGED <<lz_data, lz_calls, lz_folds, lz_last, lz_snap,
                   resolverVars, buildVars, threadVars>>

\* the caller deletes key from the i-th constituent mapping
DelKey(i, key) ==
    /\ lz_muts < MaxMutations
    /\ i \in 1..Len(lz_namespaces)
    /\ DictHas(lz_namespaces[i], key)
    /\ lz_namespaces' = [lz_namespaces EXCEPT ![i] = DictDel(@, key)]
    /\ lz_muts' = lz_muts + 1
    /\ UNCHANGED <<lz_data, lz_calls, lz_folds, lz_last, lz_snap,
                   resolverVars, buildVars, threadVars>>

NextLazyMut ==
    \/ \E key \in LzKeys : GetItem(key)
    \/ \E key \in LzKeys : Contains(key)
    \/ LenCall
    \/ IterCall
    \/ \E i \in 1..2, key \in {"a", "d"}, v \in {"8", "9"} : SetKey(i, key, v)
    \/ \E i \in 1..2, key \in {"a", "b"} : DelKey(i, key)

SpecLazyMut == InitLazyMut /\ [][NextLazyMut]_vars

(***************************************************************************)
(* Calls of ns_from and lookups in what it returned.                       *)
(***************************************************************************)
BuildObjs == SiteIds \cup FunctionObjs \cup AnnotationObjs

\* every name bound anywhere in the model of ns_from
BuildNames == {"x", "y", "g", "f", "A", "B", "C", "D", "F", "G", "H", "N", "P", "T", "U",
               "__type_params__"}

\* ns = ns_from(obj, parent_namespace)
NsFrom(obj, parent) ==
    /\ nf_last' = [op |-> "ns_from", obj |-> obj, parent |-> parent,
                   ns |-> ns_from(obj, parent)]
    /\ nf_look' = None
    /\ UNCHANGED <<resolverVars, lazyVars, threadVars>>

\* ns.locals[key] and ns.globals[key] on the tuple returned last
NfLookup(key) ==
    /\ nf_last.op = "ns_from"
    /\ nf_look' = Some([key |-> key,
                        inner |-> DictGet(NsData(nf_last.ns.locals), key),
                        outer |-> DictGet(nf_last.ns.globals, key)])
    /\ UNCHANGED <<resolverVars, lazyVars, threadVars, nf_last>>

InitNsFrom == ResolverIdle /\ LazyIdle /\ BuildIdle /\ ThreadsIdle

NextNsFrom ==
    \/ \E obj \in BuildObjs, parent \in ParentArgs : NsFrom(obj, parent)
    \/ \E key \in BuildNames : NfLookup(key)

SpecNsFrom == InitNsFrom /\ [][NextNsFrom]_vars

(***************************************************************************)
(* A caller that keeps the handles push returned and releases them in any  *)
(* order (open lists the sites of the handles not yet released).           *)
(***************************************************************************)
\* a release that removes the handle's own site from the stack
RECURSIVE RemoveLast(_, _)
RemoveLast(stack, typ) ==
    IF stack = << >> THEN << >>
    ELSE IF stack[Len(stack)] = typ THEN SubSeq(stack, 1, Len(stack) - 1)
    ELSE Append(RemoveLast(SubSeq(stack, 1, Len(stack) - 1), typ), stack[Len(stack)])

ReleaseOwnSite(stack, typ) == RemoveLast(stack, typ)

\* finally: self._types_stack.pop(), in the handle that pushed typ
ReleaseHandle(stack, typ) == StackPop(stack)

\* the handle entered i-th among those still open is released
ReleaseAt(i) ==
    /\ ~exc
    /\ i \in 1..Len(open)
    /\ types_stack' = ReleaseHandle(types_stack, open[i])
    /\ cached' = InvalidateOnPop(cached)
    /\ open' = SubSeq(open, 1, i - 1) \o SubSeq(open, i + 1, Len(open))
    /\ rt' = RtIdle
    /\ lastOp' = "release"
    /\ UNCHANGED <<lazyVars, buildVars, threadVars, base_ns_tuple, fallback_ns, override_ns, exc, lastRead>>

NextUnordered ==
    \/ Read
    \/ \E typ \in SiteIds : Push(typ)
    \/ \E i \in 1..MaxDepth : ReleaseAt(i)

\* a resolver with no base tuple, with or without a fallback and an override
InitUnordered ==
    /\ base_ns_tuple = BaseOrDefault(None)
    /\ fallback_ns \in {fb \in FallbackArgs : fb # Some(<< >>)}
    /\ override_ns \in {ov \in OverrideArgs : ov = None \/ DictHas(ov[1], "A")}
    /\ types_stack = << >>
    /\ cached = None
    /\ open = << >>
    /\ exc = FALSE
    /\ lastOp = "init"
    /\ lastRead = None
    /\ rt = RtIdle
    /\ LazyIdle
    /\ BuildIdle
    /\ ThreadsIdle

SpecUnordered == InitUnordered /\ [][NextUnordered]_vars

(***************************************************************************)
(* One resolver shared by two threads with no lock.  A read of             *)
(* types_namespace is cached_property.__get__ around the property's body:  *)
(* look the attribute up in the instance's __dict__; on a miss test the    *)
(* stack, take its top and compute; store the result.  Another thread may  *)
(* run between any two of these steps.  Thread t1 is the traversal that    *)
(* pushes and releases (properly nested); both threads read.               *)
(***************************************************************************)
\* a push or pop overtakes every read that has computed and not yet stored
Overtake(t) == IF th[t].pc = "computed" THEN [th[t] EXCEPT !.raced = TRUE] ELSE th[t]

\* cached_property.__get__: the lookup in __dict__; a hit returns at once
RCheck(t) ==
    /\ th[t].pc = "idle"
    /\ IF cached # None
       THEN /\ lastRead' = cached
            /\ lastOp' = "hit"
            /\ th' = th
       ELSE /\ th' = [th EXCEPT ![t].pc = "miss"]
            /\ UNCHANGED <<lastRead, lastOp>>
    /\ UNCHANGED <<lazyVars, buildVars, base_ns_tuple, fallback_ns, override_ns,
                   types_stack, cached, open, exc, rt, cache_raced>>

\* if not self._types_stack: return self._base_ns_tuple
RTest(t) ==
    /\ th[t].pc = "miss"
    /\ th' = [th EXCEPT ![t] =
                 IF types_stack = << >>
                 THEN [pc |-> "computed", raced |-> FALSE,
                       val |-> Some(EmptyStackNs(base_ns_tuple, fallback_ns, override_ns))]
                 ELSE [pc |-> "nonempty", raced |-> FALSE, val |-> None]]
    /\ UNCHANGED <<lazyVars, buildVars, resolverVars, cache_raced>>

\* typ = self._types_stack[-1] and the rest of the body, which reads only typ
\* and the constructor's arguments; IndexError if the stack was emptied since
\* the test
RLoad(t) ==
    /\ th[t].pc = "nonempty"
    /\ IF types_stack = << >>
       THEN /\ th' = [th EXCEPT ![t] = ThreadIdle]
            /\ lastOp' = "indexerror"
       ELSE /\ th' = [th EXCEPT ![t] =
                        [pc |-> "computed", raced |-> FALSE,
                         val |-> Some(ComputeTypesNamespace(base_ns_tuple, fallback_ns,
                                                            override_ns, types_stack))]]
            /\ UNCHANGED lastOp
    /\ UNCHANGED <<lazyVars, buildVars, base_ns_tuple, fallback_ns, override_ns,
                   types_stack, cached, open, exc, lastRead, rt, cache_raced>>

\* cached_property.__get__: the result is stored in __dict__ and returned
RStore(t) ==
    /\ th[t].pc = "computed"
    /\ cached' = th[t].val
    /\ cache_raced' = th[t].raced
    /\ lastRead' = th[t].val
    /\ lastOp' = "read"
    /\ th' = [th EXCEPT ![t] = ThreadIdle]
    /\ UNCHANGED <<lazyVars, buildVars, base_ns_tuple, fallback_ns, override_ns,
                   types_stack, open, exc, rt>>

\* thread t1 enters with ns_resolver.push(typ)
TPush(typ) ==
    /\ th["t1"].pc = "idle"
    /\ Len(open) < MaxDepth
    /\ types_stack' = StackAppend(types_stack, typ)
    /\ cached' = InvalidateOnPush(cached)
    /\ cache_raced' = FALSE
    /\ open' = Append(open, typ)
    /\ th' = [t \in Threads |-> Overtake(t)]
    /\ lastOp' = "push"
    /\ UNCHANGED <<lazyVars, buildVars, base_ns_tuple, fallback_ns, override_ns,
                   exc, lastRead, rt>>

\* thread t1 leaves its innermost scope
TRelease ==
    /\ th["t1"].pc = "idle"
    /\ open # << >>
    /\ types_stack' = ReleaseStack(types_stack, FALSE)
    /\ cached' = ReleaseCache(cached, FALSE)
    /\ cache_raced' = FALSE
    /\ open' = SubSeq(open, 1, Len(open) - 1)
    /\ th' = [t \in Threads |-> Overtake(t)]
    /\ lastOp' = "exit"
    /\ UNCHANGED <<lazyVars, buildVars, base_ns_tuple, fallback_ns, override_ns,
                   exc, lastRead, rt>>

NextThreads ==
    \/ \E t \in Threads : RCheck(t)
    \/ \E t \in Threads : RTest(t)
    \/ \E t \in Threads : RLoad(t)
    \/ \E t \in Threads : RStore(t)
    \/ \E typ \in SiteIds : TPush(typ)
    \/ TRelease

SpecThreads == InitUnordered /\ [][NextThreads]_vars

(***************************************************************************)
(* A session that either calls ns_from or drives a resolver: the two share *)
(* get_module_ns_of and nothing else.                                      *)
(***************************************************************************)
NextModule ==
    \/ lastOp = "init" /\ NextNsFrom
    \/ nf_last.op = "new" /\ Next

SpecModule == Init /\ [][NextModule]_vars

(***************************************************************************)
(* Properties of the resolver (specification Spec).                        *)
(***************************************************************************)
Top == types_stack[Len(types_stack)]

Recomputed == ComputeTypesNamespace(base_ns_tuple, fallback_ns, override_ns, types_stack)

\* C1: under properly nested push / release, a read of types_namespace returns
\* the value computed from the stack as it is at the read (base when the stack
\* is empty, else the bindings of the top); every push and every release leaves
\* the cache empty, so a cached value always equals the recomputed one.
C1_ReadIsCurrent ==
    /\ cached # None => cached[1] = Recomputed
    /\ lastOp \in {"push", "exit", "unwind"} => cached = None
    /\ lastOp = "read" =>
          /\ lastRead = Some(Recomputed)
          /\ types_stack = << >> => lastRead[1] = base_ns_tuple
          /\ types_stack # << >> =>
                /\ lastRead[1].globals = GlobalnsOf(Top, fallback_ns)
                /\ lastRead[1].locals = LazyLocalNamespace(LocalsList(Top, override_ns))

\* a read below a changed stack: read, push, release, then a read with a site on top
C1_Witness ==
    /\ lastOp = "read"
    /\ rt.phase = 4
    /\ types_stack # << >>
    /\ cached # None

\* two NamespacesTuple values bind the same names to the same values
SameBindings(t, u) ==
    /\ DictKeys(t.globals) = DictKeys(u.globals)
    /\ \A k \in DictKeys(t.globals) : DictGet(t.globals, k) = DictGet(u.globals, k)
    /\ DictKeys(NsData(t.locals)) = DictKeys(NsData(u.locals))
    /\ \A k \in DictKeys(NsData(t.locals)) :
          DictGet(NsData(t.locals), k) = DictGet(NsData(u.locals), k)

\* C2: round trip: a read, a push immediately followed by its release, and a
\* second read give the first read's bindings again, on the pre-push stack.
C2_RoundTrip ==
    rt.phase = 4 =>
        /\ types_stack = rt.stk
        /\ lastRead # None /\ rt.pre # None
        /\ SameBindings(lastRead[1], rt.pre[1])
        /\ lastRead = rt.pre

\* a round trip completed below a site, with a fallback and an override supplied
C2_Witness ==
    /\ rt.phase = 4
    /\ Len(rt.stk) >= 1
    /\ fallback_ns # None /\ fallback_ns[1] # << >>
    /\ override_ns # None

\* C3: releasing a push scope pops the stack and clears the cache on every exit
\* path: the stack is always the sequence of scopes entered and not yet
\* released, and right after a release (normal or failing) nothing is cached.
C3_ReleaseAlwaysPops ==
    /\ types_stack = open
    /\ lastOp \in {"exit", "unwind"} => cached = None

\* a scope released by a failing body, inside an outer scope still open
C3_Witness ==
    /\ lastOp = "unwind"
    /\ exc
    /\ open # << >>
    /\ lastRead # None

(***************************************************************************)
(* Properties of LazyLocalNamespace (specification SpecLazy).              *)
(***************************************************************************)
\* the constituents that contain key
Holders(key) == {i \in 1..Len(lz_namespaces) : DictHas(lz_namespaces[i], key)}

LastHolder(key) == CHOOSE i \in Holders(key) : \A j \in Holders(key) : j <= i

ConstituentKeys == UNION {DictKeys(lz_namespaces[i]) : i \in 1..Len(lz_namespaces)}

\* C4: lookup returns the value of the last constituent that contains the name
\* (KeyError when none does), contains is true exactly when some constituent
\* contains it, and size and keys count and list each distinct name once.
C4_LastConstituentWins ==
    /\ lz_last.op = "getitem" =>
          lz_last.val = IF Holders(lz_last.key) = {} THEN None
                        ELSE DictGet(lz_namespaces[LastHolder(lz_last.key)], lz_last.key)
    /\ lz_last.op = "contains" => lz_last.val = (Holders(lz_last.key) # {})
    /\ lz_last.op = "len" => lz_last.val = Cardinality(ConstituentKeys)
    /\ lz_last.op = "iter" =>
          /\ {lz_last.val[i] : i \in 1..Len(lz_last.val)} = ConstituentKeys
          /\ Len(lz_last.val) = Cardinality(ConstituentKeys)

\* a lookup of a name that three constituents bind, the first and the last differently
C4_Witness ==
    /\ lz_last.op = "getitem"
    /\ Cardinality(Holders(lz_last.key)) >= 3
    /\ lz_namespaces[1] # lz_namespaces[Len(lz_namespaces)]
    /\ DictGet(lz_namespaces[1], lz_last.key) # lz_last.val
    /\ DictGet(lz_namespaces[1], lz_last.key) # None

\* C5: the instance materializes at most once: nothing is read before the first
\* call, the first call reads each constituent exactly once, and every later
\* call leaves the counts at one.
C5_MaterializesOnce ==
    /\ lz_folds <= 1
    /\ \A i \in 1..Len(lz_namespaces) : lz_calls[i] <= 1
    /\ lz_last.op = "new" =>
          /\ lz_data = None /\ lz_folds = 0
          /\ \A i \in 1..Len(lz_namespaces) : lz_calls[i] = 0
    /\ lz_last.op # "new" =>
          /\ lz_data # None /\ lz_folds = 1
          /\ \A i \in 1..Len(lz_namespaces) : lz_calls[i] = 1

\* a call after the materializing one, on an instance with several constituents
C5_Witness ==
    /\ lz_last.op = "contains"
    /\ ~lz_last.first
    /\ Len(lz_namespaces) >= 2
    /\ lz_folds = 1

(***************************************************************************)
(* Properties of the bindings types_namespace returns (specification Spec).*)
(***************************************************************************)
\* every name bound anywhere in the model
AllNames == {"x", "y", "z", "g", "h", "f", "k", "A", "B", "C", "D"}

\* the last read's outer and inner lookup of a name (None: not bound)
Outer(k) == DictGet(lastRead[1].globals, k)
Inner(k) == DictGet(NsData(lastRead[1].locals), k)

ReadOnSite == lastOp = "read" /\ types_stack # << >>

\* C6: with an override supplied and a site on the stack, the inner scope binds
\* every name of the override to the override's value, whatever the top site's
\* members or its self-reference bind.
C6_OverrideWins ==
    (ReadOnSite /\ override_ns # None) =>
        \A k \in DictKeys(override_ns[1]) : Inner(k) = DictGet(override_ns[1], k)

\* the override rebinds both a member and the own name of the site on top
C6_Witness ==
    /\ ReadOnSite
    /\ override_ns # None
    /\ DictHas(override_ns[1], SiteName(Top))
    /\ \E k \in DictKeys(SiteVars(Top)) :
          /\ DictHas(override_ns[1], k)
          /\ DictGet(SiteVars(Top), k) # Inner(k)

\* C7: with a site named N on top and no override binding N, the inner scope
\* binds N to the site itself, also when the site has no members and when one
\* of its members is named N.
C7_SelfReference ==
    (ReadOnSite /\ (override_ns = None \/ ~DictHas(override_ns[1], SiteName(Top)))) =>
        Inner(SiteName(Top)) = Some(Top)

\* the site on top has a member with its own name, and an override binds other names
C7_Witness ==
    /\ ReadOnSite
    /\ DictHas(SiteVars(Top), SiteName(Top))
    /\ override_ns # None
    /\ Inner(SiteName(Top)) = Some(Top)

\* C8 as stated: with an empty stack and a fallback, outer merges the fallback
\* below base.outer: names of either are visible, fallback-only names have the
\* fallback's value, shared names have base's value.
C8_FallbackMergedOnEmptyStack ==
    (lastOp = "read" /\ types_stack = << >> /\ fallback_ns # None) =>
        \A k \in AllNames :
            Outer(k) = IF DictHas(base_ns_tuple.globals, k)
                       THEN DictGet(base_ns_tuple.globals, k)
                       ELSE DictGet(fallback_ns[1], k)

\* C8 amended: with an empty stack, types_namespace is the base tuple as it was
\* given, fallback or not: outer binds exactly the names of base.outer to
\* base's values, and a name bound only in the fallback is not visible.
C8_EmptyStackReturnsBase ==
    (lastOp = "read" /\ types_stack = << >>) =>
        /\ lastRead[1] = base_ns_tuple
        /\ \A k \in AllNames : Outer(k) = DictGet(base_ns_tuple.globals, k)
        /\ fallback_ns # None =>
              \A k \in DictKeys(fallback_ns[1]) \ DictKeys(base_ns_tuple.globals) :
                  Outer(k) = None

\* an empty-stack read with a fallback that shares one name with base.outer
\* and binds another one alone
C8_Witness ==
    /\ lastOp = "read"
    /\ types_stack = << >>
    /\ fallback_ns # None
    /\ \E k \in DictKeys(fallback_ns[1]) : DictHas(base_ns_tuple.globals, k)
    /\ \E k \in DictKeys(fallback_ns[1]) : ~DictHas(base_ns_tuple.globals, k)

InnerOfTop(k) ==
    IF override_ns # None /\ DictHas(override_ns[1], k) THEN DictGet(override_ns[1], k)
    ELSE IF k = SiteName(Top) THEN Some(Top)
    ELSE DictGet(SiteVars(Top), k)

\* C10: types_namespace depends on the top of the stack only: outer is the
\* module namespace of the top (over the fallback, if any) and inner binds the
\* top's members and its self-reference (under the override, if any); with no
\* fallback and no override these are exactly the top's module namespace and
\* the top's members plus its own name. Entries below the top bind nothing.
C10_TopOnly ==
    ReadOnSite =>
        /\ \A k \in AllNames : Inner(k) = InnerOfTop(k)
        /\ \A k \in AllNames :
              Outer(k) = IF DictHas(get_module_ns_of(Top), k) \/ fallback_ns = None
                         THEN DictGet(get_module_ns_of(Top), k)
                         ELSE DictGet(fallback_ns[1], k)
        /\ override_ns = None =>
              DictKeys(NsData(lastRead[1].locals))
                  = DictKeys(SiteVars(Top)) \cup {SiteName(Top)}
        /\ fallback_ns = None => lastRead[1].globals = get_module_ns_of(Top)

\* B read on top of A, with no fallback and no override: none of A's names inside
C10_Witness ==
    /\ ReadOnSite
    /\ types_stack = <<"sA", "sB">>
    /\ fallback_ns = None /\ override_ns = None
    /\ Inner("y") = Some("2") /\ Inner("B") = Some("sB")
    /\ Inner("x") = None /\ Inner("A") = None
    /\ lastRead[1].globals = DictGet(sys_modules, "M2")[1]

\* C11 as stated: in every resolver state, the empty stack included, a name
\* bound in the supplied override resolves to the override's value.
C11_OverrideAlwaysApplied ==
    (lastOp = "read" /\ override_ns # None) =>
        \A k \in DictKeys(override_ns[1]) : Inner(k) = DictGet(override_ns[1], k)

\* C11 amended: the override is applied whenever a site is on the stack; with
\* an empty stack types_namespace is the base tuple as given and a name of the
\* override resolves to what base binds it to, or to nothing.
C11_OverrideOnlyOnSite ==
    (lastOp = "read" /\ override_ns # None) =>
        \A k \in DictKeys(override_ns[1]) :
            /\ types_stack # << >> => Inner(k) = DictGet(override_ns[1], k)
            /\ types_stack = << >> =>
                  /\ Inner(k) = DictGet(NsData(base_ns_tuple.locals), k)
                  /\ Outer(k) = DictGet(base_ns_tuple.globals, k)

\* an empty-stack read with an override that rebinds a name of the base locals
C11_Witness ==
    /\ lastOp = "read"
    /\ types_stack = << >>
    /\ override_ns # None
    /\ \E k \in DictKeys(override_ns[1]) :
          /\ DictHas(NsData(base_ns_tuple.locals), k)
          /\ Inner(k) = DictGet(NsData(base_ns_tuple.locals), k)

(***************************************************************************)
(* Properties of ns_from (specification SpecNsFrom).                       *)
(***************************************************************************)
Built == nf_last.op = "ns_from"

NfInner(k) == DictGet(NsData(nf_last.ns.locals), k)
NfOuter(k) == DictGet(nf_last.ns.globals, k)

\* what the parent namespace binds a name to (None: no parent, or not bound)
ParentGet(k) == IF nf_last.parent # None THEN DictGet(nf_last.parent[1], k) ELSE None

\* the type parameter ns_from binds a name to: the last one of that name among
\* the parent's and then the object's own (None: no type parameter of that name)
TypeParamGet(k) ==
    LET tps == AllTypeParams(nf_last.obj, nf_last.parent)
        idx == {i \in 1..Len(tps) : TypeVarName(tps[i]) = k}
    IN IF idx = {} THEN None
       ELSE Some(tps[CHOOSE i \in idx : \A j \in idx : j <= i])

\* C13: for a class, the inner scope merges the parent (if any), then the
\* class's members, then the self-reference: a member wins over the parent and
\* the class's own name is the class itself whatever parent or members bind.
C13_ClassLayers ==
    (Built /\ nf_last.obj \in SiteIds) =>
        /\ \A k \in BuildNames :
              NfInner(k) = IF k = SiteName(nf_last.obj) THEN Some(nf_last.obj)
                           ELSE IF DictHas(SiteVars(nf_last.obj), k)
                                THEN DictGet(SiteVars(nf_last.obj), k)
                                ELSE ParentGet(k)
        /\ nf_look # None => nf_look[1].inner = NfInner(nf_look[1].key)

\* class A looked up for its own name, with a parent binding both that name and
\* a member's name
C13_Witness ==
    /\ Built /\ nf_last.obj = "sA"
    /\ ParentGet("A") = Some("81") /\ ParentGet("x") = Some("80")
    /\ nf_look # None /\ nf_look[1].key = "A" /\ nf_look[1].inner = Some("sA")
    /\ NfInner("x") = Some("1")

\* C14 as stated: for a function that introduces type parameter T, the inner
\* scope binds T to the parameter object and the function's own name to the
\* function.
C14_FunctionSelfReference ==
    (Built /\ nf_last.obj \in FunctionObjs /\ TypeParamsOf(nf_last.obj) # << >>) =>
        /\ NfInner("T") = Some("tvT")
        /\ NfInner(SiteName(nf_last.obj)) = Some(nf_last.obj)

\* C14 amended: for a function, the inner scope binds each of its type
\* parameters' names to the parameter object (over the parent's bindings and
\* type parameters) and holds no self-reference: every other name, the
\* function's own included, is bound as the parent binds it, or not at all.
C14_FunctionTypeParams ==
    (Built /\ nf_last.obj \in FunctionObjs) =>
        /\ \A i \in 1..Len(TypeParamsOf(nf_last.obj)) :
              NfInner(TypeVarName(TypeParamsOf(nf_last.obj)[i]))
                  = Some(TypeParamsOf(nf_last.obj)[i])
        /\ \A k \in BuildNames :
              NfInner(k) = IF TypeParamGet(k) # None THEN TypeParamGet(k) ELSE ParentGet(k)
        /\ nf_last.parent = None =>
              DictKeys(NsData(nf_last.ns.locals))
                  = {TypeVarName(TypeParamsOf(nf_last.obj)[i]) :
                         i \in 1..Len(TypeParamsOf(nf_last.obj))}

\* function F with type parameter T and no parent, looked up for its own name
C14_Witness ==
    /\ Built /\ nf_last.obj = "fF" /\ nf_last.parent = None
    /\ NfInner("T") = Some("tvT")
    /\ nf_look # None /\ nf_look[1].key = "F" /\ nf_look[1].inner = None

\* C15 as stated: for an object that is neither a class nor a function, both
\* scopes are empty whatever the parent and the module the object reports.
C15_BareIsEmpty ==
    (Built /\ nf_last.obj \in AnnotationObjs) =>
        /\ nf_last.ns.globals = << >>
        /\ NsData(nf_last.ns.locals) = << >>

\* C15 amended: an object that is neither a class nor a function is handled as
\* a function is: outer is the namespace of the module it reports (empty when
\* it reports none, or one that is not imported) and inner is the parent's
\* bindings under the type parameters the parent names; both are empty when the
\* module cannot be located and the parent is absent or empty.
C15_BareLikeFunction ==
    (Built /\ nf_last.obj \in AnnotationObjs) =>
        /\ nf_last.ns.globals = get_module_ns_of(nf_last.obj)
        /\ \A k \in BuildNames :
              NfInner(k) = IF TypeParamGet(k) # None THEN TypeParamGet(k) ELSE ParentGet(k)
        /\ (SiteModule(nf_last.obj) = None /\ nf_last.parent \in {None, Some(<< >>)}) =>
              /\ nf_last.ns.globals = << >>
              /\ NsData(nf_last.ns.locals) = << >>

\* an annotation target that reports an imported module, with a parent that
\* binds names: neither scope is empty
C15_Witness ==
    /\ Built /\ nf_last.obj = "aN"
    /\ nf_last.ns.globals # << >>
    /\ ParentGet("x") = Some("80") /\ NfInner("x") = Some("80")
    /\ nf_look # None /\ nf_look[1].key = "g" /\ nf_look[1].outer = Some("10")

(***************************************************************************)
(* Properties of the module lookup (specification SpecModule).             *)
(***************************************************************************)
\* the object names a module and sys.modules holds it
Locatable(obj) == SiteModule(obj) # None /\ DictHas(sys_modules, SiteModule(obj)[1])

\* C16: when the owning module of a site cannot be located (none named, or not
\* in sys.modules) the module lookup gives an empty namespace: ns_from returns
\* an empty outer, and types_namespace with that site on top has an empty outer,
\* or exactly the fallback's bindings when a fallback is supplied.
C16_UnlocatedModuleIsEmpty ==
    /\ (Built /\ ~Locatable(nf_last.obj)) =>
          /\ nf_last.ns.globals = << >>
          /\ nf_look # None => nf_look[1].outer = None
    /\ (ReadOnSite /\ ~Locatable(Top)) =>
          /\ fallback_ns = None => lastRead[1].globals = << >>
          /\ fallback_ns # None =>
                /\ DictKeys(lastRead[1].globals) = DictKeys(fallback_ns[1])
                /\ \A k \in AllNames : Outer(k) = DictGet(fallback_ns[1], k)

\* a read with a site on top whose module is named but not imported, under a
\* site whose module is, with a fallback supplied
C16_Witness ==
    /\ ReadOnSite
    /\ Len(types_stack) >= 2
    /\ SiteModule(Top) # None /\ ~Locatable(Top)
    /\ Locatable(types_stack[1])
    /\ fallback_ns # None /\ Outer("g") = Some("61")

(***************************************************************************)
(* Properties of handles released in any order (specification              *)
(* SpecUnordered).                                                         *)
(***************************************************************************)
\* C17: a release removes whatever site is on top of the stack, not the site
\* its handle pushed, and signals nothing: each release takes exactly the last
\* entry off, the stack stays as long as the number of open handles, and a read
\* reports the bindings of the site then on top.
C17_ReleasePopsTop ==
    /\ [](Len(types_stack) = Len(open))
    /\ [](lastOp = "read" => lastRead = Some(Recomputed))
    /\ [][lastOp' = "release" =>
            /\ types_stack # << >>
            /\ types_stack' = SubSeq(types_stack, 1, Len(types_stack) - 1)
            /\ cached' = None]_vars

\* A then B pushed, A's handle released first: B was removed, A is left on the
\* stack under B's open handle, and the read reports A's bindings
C17_Witness ==
    /\ types_stack = <<"sA">>
    /\ open = <<"sB">>
    /\ lastOp = "read"
    /\ lastRead[1].locals = LazyLocalNamespace(LocalsList("sA", override_ns))
    /\ Inner("A") \in {Some("sA"), Some("71")}
    /\ Inner("B") \in {None, Some("72")}

(***************************************************************************)
(* Properties of a resolver shared by two threads (specification           *)
(* SpecThreads).                                                           *)
(***************************************************************************)
\* C18: without a lock the resolver is unsafe: a read that a push or pop of the
\* other thread overtakes between computing and storing leaves in the cache a
\* value computed for a site that is no longer the top, and a later read
\* returns it.  Such an overtaken read is the only source of a stale cache: a
\* cached value stored by a read that was not overtaken is the value of the
\* current stack.
C18_StaleOnlyByOvertakenRead ==
    /\ (cached # None /\ ~cache_raced) => cached[1] = Recomputed
    /\ (cached # None /\ cached[1] # Recomputed) => cache_raced
    /\ \A t \in Threads :
          (th[t].pc = "computed" /\ ~th[t].raced) => th[t].val = Some(Recomputed)

\* the cache holds the bindings of a site that is not the top any more, no read
\* is under way, and the last read was a cache hit that returned them
C18_Witness ==
    /\ \A t \in Threads : th[t].pc = "idle"
    /\ types_stack # << >>
    /\ cached # None /\ cached[1] # Recomputed
    /\ \E typ \in SiteIds \ {Top} :
          cached[1].locals = LazyLocalNamespace(LocalsList(typ, override_ns))
    /\ lastOp = "hit" /\ lastRead = cached

(***************************************************************************)
(* Properties of a LazyLocalNamespace over mappings that change            *)
(* (specification SpecLazyMut).                                            *)
(***************************************************************************)
\* the merged view of the constituents as they were at the first call
SnapView == data(lz_snap[1])

\* C19: the view is a snapshot taken at the first call: it is the merge of the
\* constituents as they were then, changes made before that call included, and
\* every call returns what that view gives, whatever was changed since.
C19_SnapshotAtFirstAccess ==
    /\ lz_data = None <=> lz_snap = None
    /\ lz_data # None => lz_data[1] = SnapView
    /\ lz_last.op = "getitem" => lz_last.val = DictGet(SnapView, lz_last.key)
    /\ lz_last.op = "contains" => lz_last.val = DictHas(SnapView, lz_last.key)
    /\ lz_last.op = "len" => lz_last.val = Len(SnapView)
    /\ lz_last.op = "iter" => lz_last.val = [i \in 1..Len(SnapView) |-> SnapView[i][1]]

\* a lookup after the first call: the snapshot holds a change made before the
\* first call, a constituent was changed again since, and the lookup returns
\* the snapshot's value, not the one the constituents would give now
C19_Witness ==
    /\ lz_last.op = "getitem" /\ ~lz_last.first
    /\ lz_snap # None
    /\ lz_snap[1] \notin LzMutInits
    /\ lz_snap[1] # lz_namespaces
    /\ lz_last.val = DictGet(SnapView, lz_last.key)
    /\ lz_last.val # DictGet(data(lz_namespaces), lz_last.key)

(***************************************************************************)
(* The frame of the resolver's operations (specification Spec).            *)
(***************************************************************************)
\* C20: the stack never underflows: its length is the number of scopes entered
\* and not yet released; a release finds the entry its own push appended and
\* removes exactly one entry; a step that returns or caches a value of
\* types_namespace leaves the stack as it is; no step replaces the base, the
\* fallback or the override given at construction.
C20_StackNeverUnderflows ==
    /\ [](Len(types_stack) = Len(open))
    /\ [][Len(open') < Len(open) =>
            /\ types_stack # << >>
            /\ types_stack[Len(types_stack)] = open[Len(open)]
            /\ Len(types_stack') = Len(types_stack) - 1]_vars
    /\ [][Len(open') > Len(open) => Len(types_stack') = Len(types_stack) + 1]_vars
    /\ [][(lastRead' # lastRead \/ (cached' # None /\ cached' # cached)) =>
            types_stack' = types_stack]_vars
    /\ [][/\ base_ns_tuple' = base_ns_tuple
          /\ fallback_ns' = fallback_ns
          /\ override_ns' = override_ns]_vars

\* a read, a scope entered after it and released: the stack is back at empty,
\* on a resolver built with a fallback and an override
C20_Witness ==
    /\ rt.phase = 3
    /\ lastOp = "exit"
    /\ types_stack = << >> /\ open = << >>
    /\ lastRead # None
    /\ fallback_ns # None /\ override_ns # None

====
